---------------------------- MODULE Spec2Model ----------------------------
(***************************************************************************)
(* State-machine model of the MCP host (src/mcp-host.py): Transport,       *)
(* Client, ConnectionManager and LLMManager (the composite tool key and    *)
(* the streaming loop of process_query).                                   *)
(*                                                                         *)
(* Scheduling follows asyncio: one task runs at a time and keeps running   *)
(* until it reaches an await that really suspends (subprocess or session   *)
(* I/O, a held lock).  `running` is the task that holds the event loop,    *)
(* 0 when the loop is free to resume any ready task.  A label in           *)
(* Suspended is a task parked at such an await; every other label is a     *)
(* point inside a synchronous stretch of code.                             *)
(***************************************************************************)
EXTENDS Naturals, Integers, Sequences, FiniteSets, TLC

\* ------------------------------------------------------------------ bounds
MaxClients == 2     \* Client objects constructed in one run
MaxOps == 3         \* calls issued in one run (Client and registry calls, queries, tool calls)
MaxLen == 2         \* characters in a server or tool name
MaxEvents == 3      \* stream events consumed by one process_query

\* Two callers at a time: the least that makes calls overlap.
Tasks == {1, 2}
Clients == 1..MaxClients

\* Tool names the server advertises, and tool names a caller may ask for.
ServerTools == {"forecast"}
ToolNames == {"forecast", "alerts"}
ServerNames == {"weather", "news"}

VARIABLES
    \* Client (one entry per constructed Client object)
    session,            \* Client.session: 0 is None, n > 0 the session built on connect n
    available_tools,    \* Client._available_tools
    is_stopping,        \* Client._is_stopping
    reconnect_lock,     \* Client._reconnect_lock: [owner, waiters]
    \* Transport
    stdio,              \* Transport.stdio: 0 is None, n > 0 the stream of connect n
    write,              \* Transport.write
    exit_stack,         \* Transport.exit_stack: the streams it will close, oldest first
    \* ConnectionManager
    connections,        \* ConnectionManager.connections, in insertion order
    lock,               \* ConnectionManager._lock: [owner, waiters]
    nclients,           \* Client objects constructed so far
    \* tasks
    task,               \* per task: position, call stack, arguments, pending exception
    running,            \* the task holding the event loop, 0 if none
    ops,                \* top-level calls issued so far
    \* history
    connects,           \* per Client: Transport.connect() attempts made
    stop_requested,     \* per Client: stop() has been called on it
    last_mutation,      \* the registry mutation that completed last
    \* LLMManager: one tool call routed through the composite key
    server_tools,       \* what get_all_tools() returned: server name -> tool names
    formatted_tools,    \* what _format_tools_for_llm made of it
    tool_use,           \* the tool_use event the model sent: [name, index]
    routed,             \* what the dispatch loop split its name into
    \* LLMManager.process_query: its locals, and what it sent and received
    messages,           \* the turn sequence
    final_text,         \* the output segments
    current_text,       \* the text buffer, a sequence of deltas
    requests,           \* the messages.create() requests sent so far
    nevents,            \* stream events consumed so far
    event,              \* the stream event consumed last: [stream, type]
    said,               \* text deltas of the first stream since its last tool_use
    received,           \* text deltas of the query, of every stream, in arrival order
    last_call           \* the tool_use event handled last, and how it went

clientVars == <<session, available_tools, is_stopping, reconnect_lock>>
transportVars == <<stdio, write, exit_stack>>
registryVars == <<connections, lock, nclients>>
historyVars == <<connects, stop_requested, last_mutation>>
queryVars == <<messages, final_text, current_text, requests, nevents, event, said,
               received, last_call>>
llmVars == <<server_tools, formatted_tools, tool_use, routed, queryVars>>
vars == <<clientVars, transportVars, registryVars, task, running, ops, historyVars,
          llmVars>>

\* ----------------------------------------------------------------- helpers
FreeLock == [owner |-> 0, waiters |-> <<>>]

NoMutation == [t |-> 0, op |-> "none", name |-> "-", exc |-> "none", present |-> FALSE]

IdleTask ==
    [pc |-> "idle", stack |-> <<>>, op |-> "none", c |-> 0, name |-> "-",
     tool |-> "-", exc |-> "none", gen |-> 0,
     \* what the current (or last) call has done so far
     net |-> 0, inv |-> 0, out1 |-> "none", out2 |-> "none", recoveries |-> 0,
     absent |-> FALSE, connected0 |-> FALSE, stopped0 |-> FALSE,
     present |-> FALSE, snap |-> <<>>, prev |-> NoMutation, overlap |-> {}, idx |-> 0]

\* Labels at which a task is parked on an await (or has no call in progress).
Suspended ==
    {"idle", "lock_wait", "connect_await", "aenter_await", "initialize_await",
     "list_tools_await", "aexit_await", "aclose_await", "call_await",
     "retry_await", "registry_lock_wait",
     "create_await", "event_await", "recreate_await", "next_event_await"}

\* Task t may run its next synchronous step / may be resumed by the loop.
Runs(t, label) == task[t].pc = label /\ running = t
Resumes(t, label) == task[t].pc = label /\ running = 0

\* Move task t to record r; it keeps the loop unless r parks it.
Goto(t, r) ==
    /\ task' = [task EXCEPT ![t] = r]
    /\ running' = IF r.pc \in Suspended THEN 0 ELSE t

\* r calling the code at `entry`, to continue at `ret` when it returns or raises.
Call(r, entry, ret) == [r EXCEPT !.pc = entry, !.stack = <<ret>> \o @]

\* r returning (or raising, with r.exc set) to its caller; the outermost
\* call ends at "done", where its outcome is handed to whoever awaited it.
Ret(r) ==
    IF r.stack = <<>>
    THEN [r EXCEPT !.pc = "done"]
    ELSE [r EXCEPT !.pc = Head(r.stack), !.stack = Tail(r.stack)]

\* asyncio.Lock.acquire: taken at once only when free with nobody queued.
CanTake(l) == l.owner = 0 /\ l.waiters = <<>>
Take(l, t) == [l EXCEPT !.owner = t]
Enqueue(l, t) == [l EXCEPT !.waiters = Append(@, t)]
\* asyncio.Lock.release wakes the first waiter, which takes the lock when resumed.
CanWake(l, t) == l.owner = 0 /\ l.waiters # <<>> /\ Head(l.waiters) = t
Wake(l, t) == [owner |-> t, waiters |-> Tail(l.waiters)]
Release(l) == [l EXCEPT !.owner = 0]

\* Client.is_connected (property)
is_connected(c) == session[c] # 0 /\ ~is_stopping[c]

\* ------------------------------------------------------------------- Init
NoEvent == [name |-> <<>>, index |-> 0]

\* No tool_use event handled yet.
NoCall ==
    [n |-> 0, key |-> <<>>, server |-> <<>>, tool |-> <<>>, result |-> "none",
     messages |-> <<>>, final_text |-> <<>>, said |-> <<>>, received |-> <<>>,
     requests |-> 0]

\* The host after construction, with n Client objects constructed.
InitHost(n) ==
    /\ session = [c \in Clients |-> 0]
    /\ available_tools = [c \in Clients |-> {}]
    /\ is_stopping = [c \in Clients |-> FALSE]
    /\ reconnect_lock = [c \in Clients |-> FreeLock]
    /\ stdio = [c \in Clients |-> 0]
    /\ write = [c \in Clients |-> 0]
    /\ exit_stack = [c \in Clients |-> <<>>]
    /\ connections = <<>>
    /\ lock = FreeLock
    /\ nclients = n
    /\ task = [t \in Tasks |-> IdleTask]
    /\ running = 0
    /\ ops = 0
    /\ connects = [c \in Clients |-> 0]
    /\ stop_requested = [c \in Clients |-> FALSE]
    /\ last_mutation = NoMutation
    /\ messages = <<>>
    /\ final_text = <<>>
    /\ current_text = <<>>
    /\ requests = <<>>
    /\ nevents = 0
    /\ event = [stream |-> "none", type |-> "none"]
    /\ said = <<>>
    /\ received = <<>>
    /\ last_call = NoCall

InitWith(n) ==
    /\ InitHost(n)
    /\ server_tools = <<>>
    /\ formatted_tools = <<>>
    /\ tool_use = NoEvent
    /\ routed = <<>>


\* ------------------------------------------------------------- Transport
\* Transport.connect, up to the await of stdio_client (lines 48-57).
transport_connect(t) ==
    /\ Runs(t, "transport_connect")
    /\ LET c == task[t].c IN
       /\ connects' = [connects EXCEPT ![c] = @ + 1]
       /\ Goto(t, [task[t] EXCEPT !.pc = "connect_await", !.gen = connects[c] + 1,
                                  !.net = @ + 1])
    /\ UNCHANGED <<clientVars, transportVars, registryVars, ops,
                   stop_requested, last_mutation, llmVars>>

\* The subprocess is up: the stream is pushed on the exit stack and stored
\* (lines 56-59); Client.start goes on to open the session (line 113).
transport_connect_ok(t) ==
    /\ Resumes(t, "connect_await")
    /\ LET c == task[t].c
           g == task[t].gen IN
       /\ exit_stack' = [exit_stack EXCEPT ![c] = Append(@, g)]
       /\ stdio' = [stdio EXCEPT ![c] = g]
       /\ write' = [write EXCEPT ![c] = g]
       /\ Goto(t, [task[t] EXCEPT !.pc = "aenter_await"])
    /\ UNCHANGED <<clientVars, registryVars, ops, historyVars, llmVars>>

\* stdio_client failed: Transport.connect cleans up and raises (lines 61-63).
transport_connect_fail(t) ==
    /\ Resumes(t, "connect_await")
    /\ Goto(t, Call(task[t], "transport_cleanup", "connect_raise"))
    /\ UNCHANGED <<clientVars, transportVars, registryVars, ops, historyVars, llmVars>>

\* Mutant: the stream handles are kept.
transport_cleanup_keeps_streams(t) ==
    /\ Runs(t, "transport_cleanup")
    /\ Goto(t, [task[t] EXCEPT !.pc = "aclose"])
    /\ UNCHANGED <<clientVars, transportVars, registryVars, ops, historyVars, llmVars>>

\* Transport.cleanup (lines 67-69), up to exit_stack.aclose().
transport_cleanup(t) ==
    /\ Runs(t, "transport_cleanup")
    /\ LET c == task[t].c IN
       /\ stdio' = [stdio EXCEPT ![c] = 0]
       /\ write' = [write EXCEPT ![c] = 0]
       /\ Goto(t, [task[t] EXCEPT !.pc = "aclose"])
    /\ UNCHANGED <<clientVars, exit_stack, registryVars, ops, historyVars, llmVars>>

\* AsyncExitStack.aclose: pops the newest stream and awaits its exit, until the
\* stack is empty; with nothing to close it returns without suspending.
aclose(t) ==
    /\ Runs(t, "aclose")
    /\ LET c == task[t].c
           n == Len(exit_stack[c]) IN
       IF n = 0
       THEN /\ Goto(t, Ret(task[t]))
            /\ UNCHANGED exit_stack
       ELSE /\ exit_stack' = [exit_stack EXCEPT ![c] = SubSeq(@, 1, n - 1)]
            /\ Goto(t, [task[t] EXCEPT !.pc = "aclose_await"])
    /\ UNCHANGED <<clientVars, stdio, write, registryVars, ops, historyVars, llmVars>>

aclose_resume(t) ==
    /\ Resumes(t, "aclose_await")
    /\ Goto(t, [task[t] EXCEPT !.pc = "aclose"])
    /\ UNCHANGED <<clientVars, transportVars, registryVars, ops, historyVars, llmVars>>

\* ---------------------------------------------------------------- Client
\* Client.start, lines 104-107: the connected check, then the reconnect lock.
start(t) ==
    /\ Runs(t, "start")
    /\ LET c == task[t].c IN
       IF is_connected(c)
       THEN /\ Goto(t, Ret(task[t]))
            /\ UNCHANGED reconnect_lock
       ELSE IF CanTake(reconnect_lock[c])
       THEN /\ reconnect_lock' = [reconnect_lock EXCEPT ![c] = Take(@, t)]
            /\ Goto(t, [task[t] EXCEPT !.pc = "transport_connect"])
       ELSE /\ reconnect_lock' = [reconnect_lock EXCEPT ![c] = Enqueue(@, t)]
            /\ Goto(t, [task[t] EXCEPT !.pc = "lock_wait"])
    /\ UNCHANGED <<session, available_tools, is_stopping, transportVars,
                   registryVars, ops, historyVars, llmVars>>

\* A start() that waited for the reconnect lock gets it (line 107) and goes on
\* to line 108.
start_lock_acquired(t) ==
    /\ Resumes(t, "lock_wait")
    /\ LET c == task[t].c IN
       /\ CanWake(reconnect_lock[c], t)
       /\ reconnect_lock' = [reconnect_lock EXCEPT ![c] = Wake(@, t)]
       /\ Goto(t, [task[t] EXCEPT !.pc = "transport_connect"])
    /\ UNCHANGED <<session, available_tools, is_stopping, transportVars,
                   registryVars, ops, historyVars, llmVars>>

\* Transport.connect raised: start's handler runs Client.cleanup (lines 120-121).
connect_raise(t) ==
    /\ Runs(t, "connect_raise")
    /\ Goto(t, Call(task[t], "cleanup", "start_raise"))
    /\ UNCHANGED <<clientVars, transportVars, registryVars, ops, historyVars, llmVars>>

\* ClientSession.__aenter__ returned: self.session is set and initialize() is
\* sent (lines 113-114).
session_opened(t) ==
    /\ Resumes(t, "aenter_await")
    /\ session' = [session EXCEPT ![task[t].c] = task[t].gen]
    /\ Goto(t, [task[t] EXCEPT !.pc = "initialize_await", !.net = @ + 1])
    /\ UNCHANGED <<available_tools, is_stopping, reconnect_lock, transportVars,
                   registryVars, ops, historyVars, llmVars>>

\* initialize() returned: list_tools() is sent (line 117), unless self.session
\* was reset meanwhile, which raises inside the try.
initialized(t) ==
    /\ Resumes(t, "initialize_await")
    /\ IF session[task[t].c] = 0
       THEN Goto(t, Call(task[t], "cleanup", "start_raise"))
       ELSE Goto(t, [task[t] EXCEPT !.pc = "list_tools_await", !.net = @ + 1])
    /\ UNCHANGED <<clientVars, transportVars, registryVars, ops, historyVars, llmVars>>

\* list_tools() returned: the capability list is cached, the lock released and
\* start returns (lines 117-118).
tools_listed(t) ==
    /\ Resumes(t, "list_tools_await")
    /\ LET c == task[t].c IN
       /\ available_tools' = [available_tools EXCEPT ![c] = ServerTools]
       /\ reconnect_lock' = [reconnect_lock EXCEPT ![c] = Release(@)]
       /\ Goto(t, Ret(task[t]))
    /\ UNCHANGED <<session, is_stopping, transportVars, registryVars, ops, historyVars, llmVars>>

\* Mutant: the failure is raised without cleanup.
start_step_failed_without_cleanup(t) ==
    /\ \E l \in {"aenter_await", "initialize_await", "list_tools_await"} : Resumes(t, l)
    /\ Goto(t, [task[t] EXCEPT !.pc = "start_raise"])
    /\ UNCHANGED <<clientVars, transportVars, registryVars, ops, historyVars, llmVars>>

\* Opening the session, the handshake or the listing raised (lines 120-121).
start_step_failed(t) ==
    /\ \E l \in {"aenter_await", "initialize_await", "list_tools_await"} : Resumes(t, l)
    /\ Goto(t, Call(task[t], "cleanup", "start_raise"))
    /\ UNCHANGED <<clientVars, transportVars, registryVars, ops, historyVars, llmVars>>

\* After cleanup, start raises ConnectionError and leaves the lock (lines 122-123).
start_raise(t) ==
    /\ Runs(t, "start_raise")
    /\ reconnect_lock' = [reconnect_lock EXCEPT ![task[t].c] = Release(@)]
    /\ Goto(t, Ret([task[t] EXCEPT !.exc = "ConnectionError"]))
    /\ UNCHANGED <<session, available_tools, is_stopping, transportVars,
                   registryVars, ops, historyVars, llmVars>>

\* Client.ensure_connected (lines 127-128)
ensure_connected(t) ==
    /\ Runs(t, "ensure_connected")
    /\ IF is_connected(task[t].c)
       THEN Goto(t, Ret(task[t]))
       ELSE Goto(t, [task[t] EXCEPT !.pc = "start"])
    /\ UNCHANGED <<clientVars, transportVars, registryVars, ops, historyVars, llmVars>>

\* Client.stop, lines 132-133
stop(t) ==
    /\ Runs(t, "stop")
    /\ is_stopping' = [is_stopping EXCEPT ![task[t].c] = TRUE]
    /\ stop_requested' = [stop_requested EXCEPT ![task[t].c] = TRUE]
    /\ Goto(t, Call(task[t], "cleanup", "stop_clear"))
    /\ UNCHANGED <<session, available_tools, reconnect_lock, transportVars,
                   registryVars, ops, connects, last_mutation, llmVars>>

\* Client.stop, line 134
stop_clear(t) ==
    /\ Runs(t, "stop_clear")
    /\ is_stopping' = [is_stopping EXCEPT ![task[t].c] = FALSE]
    /\ Goto(t, Ret(task[t]))
    /\ UNCHANGED <<session, available_tools, reconnect_lock, transportVars,
                   registryVars, ops, historyVars, llmVars>>

\* Client.cleanup, lines 138-140: the list is emptied and the session, if any,
\* is closed; without one it goes straight to transport.cleanup() (line 142).
cleanup(t) ==
    /\ Runs(t, "cleanup")
    /\ available_tools' = [available_tools EXCEPT ![task[t].c] = {}]
    /\ IF session[task[t].c] # 0
       THEN Goto(t, [task[t] EXCEPT !.pc = "aexit_await"])
       ELSE Goto(t, [task[t] EXCEPT !.pc = "transport_cleanup"])
    /\ UNCHANGED <<session, is_stopping, reconnect_lock, transportVars,
                   registryVars, ops, historyVars, llmVars>>

\* session.__aexit__ returned: self.session = None, then transport.cleanup()
\* (lines 141-142).
session_closed(t) ==
    /\ Resumes(t, "aexit_await")
    /\ session' = [session EXCEPT ![task[t].c] = 0]
    /\ Goto(t, [task[t] EXCEPT !.pc = "transport_cleanup"])
    /\ UNCHANGED <<available_tools, is_stopping, reconnect_lock, transportVars,
                   registryVars, ops, historyVars, llmVars>>

\* `tool_name` is in the cached list (line 160).
tool_available(c, tool) == tool \in available_tools[c]

\* Mutant: every failure is taken for a connectivity error.
any_error_is_connection_error(e) == e # "ok"

\* The error is of the connectivity class (line 168).
is_connection_error(e) == e = "ConnectionError"

\* What session.call_tool can end with.
CallOutcomes == {"ok", "ConnectionError", "ToolError"}

\* Client.call_tool, line 158
call_tool(t) ==
    /\ Runs(t, "call_tool")
    /\ IF is_connected(task[t].c)
       THEN Goto(t, [task[t] EXCEPT !.pc = "call_check"])
       ELSE Goto(t, Call(task[t], "start", "call_check"))
    /\ UNCHANGED <<clientVars, transportVars, registryVars, ops, historyVars, llmVars>>

\* Client.call_tool, lines 158-165: a failed ensure_connected propagates; a
\* name missing from the cached list raises ValueError; otherwise the call is
\* sent (with no session the attribute access raises instead).
call_check(t) ==
    /\ Runs(t, "call_check")
    /\ LET r == task[t] IN
       IF r.exc # "none" THEN Goto(t, Ret(r))
       ELSE IF ~tool_available(r.c, r.tool)
       THEN Goto(t, Ret([r EXCEPT !.exc = "ValueError"]))
       ELSE IF session[r.c] = 0
       THEN Goto(t, Ret([r EXCEPT !.exc = "AttributeError"]))
       ELSE Goto(t, [r EXCEPT !.pc = "call_await", !.inv = @ + 1, !.net = @ + 1])
    /\ UNCHANGED <<clientVars, transportVars, registryVars, ops, historyVars, llmVars>>

\* The first session.call_tool ended (lines 165-172): a result is returned, a
\* connectivity error starts the recovery with cleanup(), any other error is
\* raised again.
call_returned(t) ==
    /\ Resumes(t, "call_await")
    /\ \E o \in CallOutcomes :
         LET r == [task[t] EXCEPT !.out1 = o] IN
         IF o = "ok" THEN Goto(t, Ret(r))
         ELSE IF is_connection_error(o)
         THEN Goto(t, Call([r EXCEPT !.recoveries = @ + 1], "cleanup", "call_reconnect"))
         ELSE Goto(t, Ret([r EXCEPT !.exc = o]))
    /\ UNCHANGED <<clientVars, transportVars, registryVars, ops, historyVars, llmVars>>

\* Client.call_tool, line 170
call_reconnect(t) ==
    /\ Runs(t, "call_reconnect")
    /\ IF is_connected(task[t].c)
       THEN Goto(t, [task[t] EXCEPT !.pc = "call_retry"])
       ELSE Goto(t, Call(task[t], "start", "call_retry"))
    /\ UNCHANGED <<clientVars, transportVars, registryVars, ops, historyVars, llmVars>>

\* Client.call_tool, line 171: the one retry, unless the reconnect raised.
call_retry(t) ==
    /\ Runs(t, "call_retry")
    /\ LET r == task[t] IN
       IF r.exc # "none" THEN Goto(t, Ret(r))
       ELSE IF session[r.c] = 0
       THEN Goto(t, Ret([r EXCEPT !.exc = "AttributeError"]))
       ELSE Goto(t, [r EXCEPT !.pc = "retry_await", !.inv = @ + 1, !.net = @ + 1])
    /\ UNCHANGED <<clientVars, transportVars, registryVars, ops, historyVars, llmVars>>

\* The retry ended (line 171): its result or its error is the call's.
retry_returned(t) ==
    /\ Resumes(t, "retry_await")
    /\ \E o \in CallOutcomes :
         Goto(t, Ret([task[t] EXCEPT !.out2 = o,
                                     !.exc = IF o = "ok" THEN "none" ELSE o]))
    /\ UNCHANGED <<clientVars, transportVars, registryVars, ops, historyVars, llmVars>>

\* ------------------------------------------------- callers of one Client
\* A task with no call in progress issues `op` on Client c.
Begin(t, op, c, tool) ==
    /\ Resumes(t, "idle")
    /\ ops < MaxOps
    /\ ops' = ops + 1
    /\ Goto(t, [IdleTask EXCEPT !.pc = op, !.op = op, !.c = c, !.tool = tool,
                                !.absent = ~(tool \in available_tools[c]),
                                !.connected0 = is_connected(c),
                                !.stopped0 = stop_requested[c]])
    /\ UNCHANGED <<clientVars, transportVars, registryVars, historyVars, llmVars>>

\* The call is over: the task holds nothing of it any more.
finish(t) ==
    /\ Runs(t, "done")
    /\ Goto(t, IdleTask)
    /\ UNCHANGED <<clientVars, transportVars, registryVars, ops, historyVars, llmVars>>

ClientOps == {"start", "ensure_connected", "stop", "cleanup"}

call_client(t) ==
    \E c \in 1..nclients :
       \/ \E op \in ClientOps : Begin(t, op, c, "-")
       \/ \E tool \in ToolNames : Begin(t, "call_tool", c, tool)

ClientStep(t) ==
    \/ transport_connect(t) \/ transport_connect_ok(t) \/ transport_connect_fail(t)
    \/ transport_cleanup(t) \/ aclose(t) \/ aclose_resume(t)
    \/ start(t) \/ start_lock_acquired(t) \/ connect_raise(t)
    \/ session_opened(t) \/ initialized(t) \/ tools_listed(t)
    \/ start_step_failed(t) \/ start_raise(t)
    \/ stop(t) \/ stop_clear(t)
    \/ cleanup(t) \/ session_closed(t) \/ finish(t)

CallStep(t) ==
    \/ call_tool(t) \/ call_check(t) \/ call_returned(t)
    \/ call_reconnect(t) \/ call_retry(t) \/ retry_returned(t)

\* One Client, constructed by its caller (lines 74-86), used by concurrent tasks.
InitClient == InitWith(1)
NextClient ==
    \E t \in Tasks : call_client(t) \/ ensure_connected(t) \/ ClientStep(t) \/ CallStep(t)
SpecClient == InitClient /\ [][NextClient]_vars


\* ----------------------------------------------------- ConnectionManager
RegistryOps == {"add_connection", "remove_connection", "manager_cleanup"}

\* Where each registry operation goes on once it holds the lock.
Locked(op) ==
    CASE op = "add_connection" -> "add_check"
      [] op = "remove_connection" -> "remove_check"
      [] op = "manager_cleanup" -> "cleanup_loop"

RegisteredNames == {connections[i].name : i \in DOMAIN connections}
RegisteredClients == {connections[i].client : i \in DOMAIN connections}
Index(name) == CHOOSE i \in DOMAIN connections : connections[i].name = name

\* self.connections[name] = {...}: a new key goes last, a known key is overwritten.
Put(conns, name, c) ==
    IF \E i \in DOMAIN conns : conns[i].name = name
    THEN [i \in DOMAIN conns |->
            IF conns[i].name = name THEN [name |-> name, client |-> c] ELSE conns[i]]
    ELSE Append(conns, [name |-> name, client |-> c])

\* Mutant: the entry is left in the mapping.
Del_nothing(conns, name) == conns

\* del self.connections[name]
Del(conns, name) == SelectSeq(conns, LAMBDA e : e.name # name)

\* Mutant: the membership test always fails.
never_in_connections(name) == FALSE

\* `server_name in self.connections` (lines 222, 254, 272)
in_connections(name) == name \in RegisteredNames

Mutation(t, exc) ==
    [t |-> t, op |-> task[t].op, name |-> task[t].name, exc |-> exc,
     present |-> task[t].present]

\* Mutant: the registry operation does not wait for the lock.
acquire_lock_unguarded(t) ==
    /\ \E op \in RegistryOps : Runs(t, op)
    /\ lock' = Take(lock, t)
    /\ Goto(t, [task[t] EXCEPT !.pc = Locked(task[t].op)])
    /\ UNCHANGED <<clientVars, transportVars, connections, nclients, ops, historyVars, llmVars>>

\* `async with self._lock` (lines 221, 253, 294), entered
acquire_lock(t) ==
    /\ \E op \in RegistryOps : Runs(t, op)
    /\ IF CanTake(lock)
       THEN /\ lock' = Take(lock, t)
            /\ Goto(t, [task[t] EXCEPT !.pc = Locked(task[t].op)])
       ELSE /\ lock' = Enqueue(lock, t)
            /\ Goto(t, [task[t] EXCEPT !.pc = "registry_lock_wait"])
    /\ UNCHANGED <<clientVars, transportVars, connections, nclients, ops, historyVars, llmVars>>

lock_acquired(t) ==
    /\ Resumes(t, "registry_lock_wait")
    /\ CanWake(lock, t)
    /\ lock' = Wake(lock, t)
    /\ Goto(t, [task[t] EXCEPT !.pc = Locked(task[t].op)])
    /\ UNCHANGED <<clientVars, transportVars, connections, nclients, ops, historyVars, llmVars>>

\* add_connection, lines 222-231: a known name raises ValueError; otherwise
\* the Server, Transport and Client are constructed and the Client started.
add_check(t) ==
    /\ Runs(t, "add_check")
    /\ LET r == [task[t] EXCEPT !.present = in_connections(task[t].name),
                                !.snap = connections, !.prev = last_mutation] IN
       IF in_connections(r.name)
       THEN /\ lock' = Release(lock)
            /\ last_mutation' = [Mutation(t, "ValueError") EXCEPT !.present = TRUE]
            /\ Goto(t, Ret([r EXCEPT !.exc = "ValueError"]))
            /\ UNCHANGED nclients
       ELSE /\ nclients' = nclients + 1
            /\ Goto(t, Call([r EXCEPT !.c = nclients + 1], "start", "add_store"))
            /\ UNCHANGED <<lock, last_mutation, llmVars>>
    /\ UNCHANGED <<clientVars, transportVars, connections, ops, connects, stop_requested, llmVars>>

\* Mutant: the connection is stored whether or not start() succeeded.
store_connection_always(conns, name, c, exc) == Put(conns, name, c)

\* Lines 231-238: start() raising skips the store.
store_connection(conns, name, c, exc) ==
    IF exc = "none" THEN Put(conns, name, c) ELSE conns

\* add_connection, lines 231-238: a failed start() propagates, leaving the
\* lock; after a successful one the connection is stored.
add_store(t) ==
    /\ Runs(t, "add_store")
    /\ LET r == task[t] IN
       /\ connections' = store_connection(connections, r.name, r.c, r.exc)
       /\ last_mutation' = Mutation(t, r.exc)
       /\ lock' = Release(lock)
       /\ Goto(t, Ret(r))
    /\ UNCHANGED <<clientVars, transportVars, nclients, ops, connects, stop_requested, llmVars>>

\* remove_connection, lines 254-257
remove_check(t) ==
    /\ Runs(t, "remove_check")
    /\ LET r == [task[t] EXCEPT !.present = in_connections(task[t].name),
                                !.snap = connections, !.prev = last_mutation] IN
       IF ~in_connections(r.name)
       THEN /\ lock' = Release(lock)
            /\ last_mutation' = Mutation(t, "ValueError")
            /\ Goto(t, Ret([r EXCEPT !.exc = "ValueError"]))
       ELSE /\ Goto(t, Call([r EXCEPT !.c = connections[Index(r.name)].client],
                            "stop", "remove_del"))
            /\ UNCHANGED <<lock, last_mutation, llmVars>>
    /\ UNCHANGED <<clientVars, transportVars, connections, nclients, ops,
                   connects, stop_requested, llmVars>>

\* remove_connection, line 258
remove_del(t) ==
    /\ Runs(t, "remove_del")
    /\ connections' = Del(connections, task[t].name)
    /\ last_mutation' = [Mutation(t, "none") EXCEPT !.present = TRUE]
    /\ lock' = Release(lock)
    /\ Goto(t, Ret(task[t]))
    /\ UNCHANGED <<clientVars, transportVars, nclients, ops, connects, stop_requested, llmVars>>

\* ConnectionManager.cleanup, lines 295-297: stop() for each connection in
\* turn, then clear().
cleanup_loop(t) ==
    /\ Runs(t, "cleanup_loop")
    /\ LET r == IF task[t].idx = 0
                THEN [task[t] EXCEPT !.snap = connections, !.prev = last_mutation]
                ELSE task[t] IN
       IF r.idx < Len(connections)
       THEN /\ Goto(t, Call([r EXCEPT !.idx = @ + 1, !.c = connections[r.idx + 1].client],
                            "stop", "cleanup_loop"))
            /\ UNCHANGED <<connections, lock, last_mutation, llmVars>>
       ELSE /\ connections' = <<>>
            /\ last_mutation' = Mutation(t, "none")
            /\ lock' = Release(lock)
            /\ Goto(t, Ret(r))
    /\ UNCHANGED <<clientVars, transportVars, nclients, ops, connects, stop_requested, llmVars>>

\* get_client (lines 272-274), as the dispatch loop uses it (lines 378-379):
\* an unknown name raises ValueError, a known one yields its Client, on which
\* call_tool is then awaited.
get_client(t) ==
    /\ Runs(t, "get_client")
    /\ LET r == task[t] IN
       IF ~in_connections(r.name)
       THEN Goto(t, Ret([r EXCEPT !.exc = "ValueError"]))
       ELSE LET c == connections[Index(r.name)].client IN
            Goto(t, [r EXCEPT !.pc = "call_tool", !.c = c,
                              !.absent = ~(r.tool \in available_tools[c]),
                              !.connected0 = is_connected(c),
                              !.stopped0 = stop_requested[c]])
    /\ UNCHANGED <<clientVars, transportVars, registryVars, ops, historyVars, llmVars>>

\* add_connection calls in progress that have not constructed their Client yet.
PendingAdds ==
    Cardinality({u \in Tasks : task[u].op = "add_connection" /\ task[u].c = 0})

\* A task with no call in progress issues a registry operation.
BeginRegistry(t, op, name) ==
    /\ Resumes(t, "idle")
    /\ ops < MaxOps
    /\ ops' = ops + 1
    /\ Goto(t, [IdleTask EXCEPT !.pc = op, !.op = op, !.name = name,
                  !.overlap = {u \in Tasks : /\ task[u].op = "add_connection"
                                             /\ op = "add_connection"
                                             /\ task[u].name = name}])
    /\ UNCHANGED <<clientVars, transportVars, registryVars, historyVars, llmVars>>

\* A task with no call in progress has a tool call routed to a server.
call_dispatch(t) ==
    \E name \in ServerNames, tool \in ToolNames :
       /\ Resumes(t, "idle")
       /\ ops < MaxOps
       /\ ops' = ops + 1
       /\ Goto(t, [IdleTask EXCEPT !.pc = "get_client", !.op = "call_tool",
                                   !.name = name, !.tool = tool])
       /\ UNCHANGED <<clientVars, transportVars, registryVars, historyVars, llmVars>>

call_registry(t) ==
    \/ \E name \in ServerNames :
          /\ nclients + PendingAdds < MaxClients
          /\ BeginRegistry(t, "add_connection", name)
    \/ \E name \in ServerNames : BeginRegistry(t, "remove_connection", name)
    \/ BeginRegistry(t, "manager_cleanup", "-")

RegistryStep(t) ==
    \/ acquire_lock(t) \/ lock_acquired(t)
    \/ add_check(t) \/ add_store(t)
    \/ remove_check(t) \/ remove_del(t)
    \/ cleanup_loop(t)

\* The host's registry, empty at construction (lines 198-201), used by
\* concurrent tasks.
InitRegistry == InitWith(0)
NextRegistry ==
    \E t \in Tasks :
       \/ call_registry(t) \/ call_dispatch(t) \/ get_client(t)
       \/ RegistryStep(t) \/ ClientStep(t) \/ CallStep(t)
SpecRegistry == InitRegistry /\ [][NextRegistry]_vars


\* ------------------------------------------- LLMManager: composite keys
\* Names are sequences of characters, so that the key can be built and split
\* as the code does.
Chars == {"a", "_"}
Names == UNION {[1..n -> Chars] : n \in 1..MaxLen}

\* f"{server_name}_{tool['name']}" (line 324)
composite_key(server_name, tool_name) == server_name \o <<"_">> \o tool_name

\* One server's tools, formatted (lines 322-327).
RECURSIVE format_server(_, _)
format_server(server_name, tools) ==
    IF tools = <<>> THEN <<>>
    ELSE <<[name |-> composite_key(server_name, Head(tools)),
            description |-> <<server_name, Head(tools)>>]>>
         \o format_server(server_name, Tail(tools))

\* LLMManager._format_tools_for_llm (lines 320-328)
RECURSIVE format_tools_for_llm(_)
format_tools_for_llm(st) ==
    IF st = <<>> THEN <<>>
    ELSE format_server(Head(st).server, Head(st).tools) \o format_tools_for_llm(Tail(st))

\* name.split('_', 1) (line 375): one part when there is no underscore, else
\* what precedes the first underscore and what follows it.
split_first(name) ==
    LET us == {i \in DOMAIN name : name[i] = "_"} IN
    IF us = {} THEN <<name>>
    ELSE LET i == CHOOSE j \in us : \A k \in us : j <= k IN
         <<SubSeq(name, 1, i - 1), SubSeq(name, i + 1, Len(name))>>

\* process_query, lines 340-341: the catalog is built from the registry's tools.
format_tools ==
    /\ server_tools # <<>> /\ formatted_tools = <<>>
    /\ formatted_tools' = format_tools_for_llm(server_tools)
    /\ UNCHANGED <<clientVars, transportVars, registryVars, task, running, ops,
                   historyVars, server_tools, tool_use, routed, queryVars>>

\* The model answers with a tool_use event naming one of the tools it was given.
model_tool_use ==
    /\ tool_use = NoEvent
    /\ \E i \in DOMAIN formatted_tools :
          tool_use' = [name |-> formatted_tools[i].name, index |-> i]
    /\ UNCHANGED <<clientVars, transportVars, registryVars, task, running, ops,
                   historyVars, server_tools, formatted_tools, routed, queryVars>>

\* process_query, line 375: the event's name is split into server and tool.
split_tool_name ==
    /\ tool_use # NoEvent /\ routed = <<>>
    /\ routed' = split_first(tool_use.name)
    /\ UNCHANGED <<clientVars, transportVars, registryVars, task, running, ops,
                   historyVars, server_tools, formatted_tools, tool_use, queryVars>>

\* Registries of one or two servers with distinct names, each advertising one tool.
Entries == {[server |-> s, tools |-> <<c>>] : s \in Names, c \in Names}
Catalogs ==
    {<<e>> : e \in Entries}
    \cup {p \in {<<e, f>> : e \in Entries, f \in Entries} : p[1].server # p[2].server}

InitKey ==
    /\ InitHost(0)
    /\ server_tools \in Catalogs
    /\ formatted_tools = <<>>
    /\ tool_use = NoEvent
    /\ routed = <<>>
NextKey == format_tools \/ model_tool_use \/ split_tool_name
SpecKey == InitKey /\ [][NextKey]_vars


\* --------------------------------------- LLMManager.process_query
\* One orchestrator runs the host: main() adds the servers and then runs the
\* chat loop, one query at a time (lines 505-511, 458-465).
Orchestrator == 1

\* A name as the one-token sequence the key is built from, and back.
token(name) == <<name>>
text(part) == part[1]

RECURSIVE tool_list(_)
tool_list(tools) ==
    IF tools = {} THEN <<>>
    ELSE LET x == CHOOSE y \in tools : TRUE IN <<token(x)>> \o tool_list(tools \ {x})

\* ConnectionManager.get_all_tools (lines 282-290)
get_all_tools ==
    [i \in DOMAIN connections |->
        [server |-> token(connections[i].name),
         tools |-> tool_list(available_tools[connections[i].client])]]

\* Tool names the model may put in a tool_use event: the keys of the servers
\* and tools there can be, and a name that holds no underscore.
ModelKeys ==
    {composite_key(token(n), token(tl)) : n \in ServerNames, tl \in ToolNames}
    \cup {token("forecast")}

Turn(role, content) == [role |-> role, content |-> content]

\* str(result.content) (line 397)
ResultText == <<"result">>

\* Output segments: buffered text, the annotation of a call (line 385) and
\* the annotation of an error (line 418).
TextSegment(txt) ==
    [kind |-> "text", server |-> <<>>, tool |-> <<>>, message |-> "-", text |-> txt]
CalledSegment(server_name, tool_name) ==
    [kind |-> "called", server |-> server_name, tool |-> tool_name, message |-> "-",
     text |-> <<>>]
ErrorSegment(server_name, tool_name, e) ==
    [kind |-> "error", server |-> server_name, tool |-> tool_name, message |-> e,
     text |-> <<>>]

\* `if current_text: final_text.append(current_text)` (lines 366-367, 370-371,
\* 413-414)
flushed(segments, txt) ==
    IF txt # <<>> THEN Append(segments, TextSegment(txt)) ELSE segments

\* Mutant: the turns are appended whether or not the call raised.
turns_after_call_always(msgs, txt, exc) ==
    Append(IF txt # <<>> THEN Append(msgs, Turn("assistant", txt)) ELSE msgs,
           Turn("user", ResultText))

\* Lines 390-398, which a raising get_client or call_tool skips: the buffered
\* text, if any, becomes an assistant turn and the result a user turn.
turns_after_call(msgs, txt, exc) ==
    IF exc = "none"
    THEN Append(IF txt # <<>> THEN Append(msgs, Turn("assistant", txt)) ELSE msgs,
                Turn("user", ResultText))
    ELSE msgs

\* Mutant: a successful call leaves no annotation.
output_without_annotation(segments, server_name, tool_name, exc) ==
    IF exc = "none" THEN segments
    ELSE Append(segments, ErrorSegment(server_name, tool_name, exc))

\* Lines 385-386 after a call that returned, lines 418-420 after one that raised.
output_after_call(segments, server_name, tool_name, exc) ==
    IF exc = "none"
    THEN Append(segments, CalledSegment(server_name, tool_name))
    ELSE Append(segments, ErrorSegment(server_name, tool_name, exc))

Consumed(stream, type) == [stream |-> stream, type |-> type]

\* The chat loop passes a query to process_query (line 465).
begin_query(t) ==
    /\ Resumes(t, "idle")
    /\ ops < MaxOps
    /\ ops' = ops + 1
    /\ Goto(t, [IdleTask EXCEPT !.pc = "process_query", !.op = "process_query"])
    /\ UNCHANGED <<clientVars, transportVars, registryVars, historyVars, llmVars>>

\* process_query, lines 339-350: the turn sequence starts with the query, the
\* catalog is built and the first request is sent with it.
process_query(t) ==
    /\ Runs(t, "process_query")
    /\ messages' = <<Turn("user", <<"query">>)>>
    /\ requests' = <<[messages |-> messages',
                      tools |-> format_tools_for_llm(get_all_tools)]>>
    /\ final_text' = <<>>
    /\ current_text' = <<>>
    /\ nevents' = 0
    /\ event' = Consumed("none", "none")
    /\ said' = <<>>
    /\ received' = <<>>
    /\ last_call' = NoCall
    /\ Goto(t, [task[t] EXCEPT !.pc = "create_await"])
    /\ UNCHANGED <<clientVars, transportVars, registryVars, ops, historyVars,
                   server_tools, formatted_tools, tool_use, routed>>

\* messages.create() returned the stream (lines 344-356).
stream_opened(t) ==
    /\ Resumes(t, "create_await")
    /\ Goto(t, [task[t] EXCEPT !.pc = "event_await"])
    /\ UNCHANGED <<clientVars, transportVars, registryVars, ops, historyVars, llmVars>>

\* messages.create() raised (line 344): nothing catches it in process_query.
create_failed(t) ==
    /\ Resumes(t, "create_await")
    /\ event' = Consumed("first", "create_failed")
    /\ Goto(t, Ret([task[t] EXCEPT !.exc = "APIError"]))
    /\ UNCHANGED <<clientVars, transportVars, registryVars, ops, historyVars,
                   server_tools, formatted_tools, tool_use, routed,
                   messages, final_text, current_text, requests, nevents, said, received, last_call>>

\* One more event of the first stream arrives (line 356).
NextEvent(t, type) ==
    /\ Resumes(t, "event_await")
    /\ nevents < MaxEvents
    /\ nevents' = nevents + 1
    /\ event' = Consumed("first", type)

\* message_start, content_block_start, a delta that is not text (lines 357-362)
event_ignored(t) ==
    /\ NextEvent(t, "other")
    /\ Goto(t, task[t])
    /\ UNCHANGED <<clientVars, transportVars, registryVars, ops, historyVars,
                   server_tools, formatted_tools, tool_use, routed,
                   messages, final_text, current_text, requests, said, received, last_call>>

\* content_block_delta with a text_delta (lines 361-364)
text_delta(t) ==
    /\ NextEvent(t, "text_delta")
    /\ current_text' = Append(current_text, "text")
    /\ said' = Append(said, "text")
    /\ received' = Append(received, "text")
    /\ Goto(t, task[t])
    /\ UNCHANGED <<clientVars, transportVars, registryVars, ops, historyVars,
                   server_tools, formatted_tools, tool_use, routed,
                   messages, final_text, requests, last_call>>

\* content_block_stop or message_stop (lines 365-372, the same code for
\* both): the buffer is flushed into the output and emptied.
block_stop(t) ==
    /\ NextEvent(t, "block_stop")
    /\ final_text' = flushed(final_text, current_text)
    /\ current_text' = <<>>
    /\ Goto(t, task[t])
    /\ UNCHANGED <<clientVars, transportVars, registryVars, ops, historyVars,
                   server_tools, formatted_tools, tool_use, routed,
                   messages, requests, said, received, last_call>>

\* The orchestrator's record while it consumes a stream: what the last tool
\* call left in it is gone.
Reading(r, label) == [IdleTask EXCEPT !.pc = label, !.op = r.op, !.stack = r.stack]

\* tool_use (lines 373-379): the name is split, outside the try, and inside it
\* the Client is looked up and its call_tool awaited.  A tool call counts as
\* a call of the run, as in call_dispatch.
tool_use_event(t) ==
    /\ NextEvent(t, "tool_use")
    /\ ops < MaxOps
    /\ ops' = ops + 1
    /\ \E key \in ModelKeys :
          LET parts == split_first(key)
              call == [NoCall EXCEPT !.n = last_call.n + 1, !.key = key,
                                     !.messages = messages,
                                     !.final_text = final_text,
                                     !.said = said,
                                     !.received = received,
                                     !.requests = Len(requests)] IN
          IF Len(parts) # 2
          THEN /\ last_call' = [call EXCEPT !.result = "not_split"]
               /\ Goto(t, Ret([task[t] EXCEPT !.exc = "ValueError"]))
          ELSE /\ last_call' = [call EXCEPT !.server = parts[1], !.tool = parts[2],
                                            !.result = "pending"]
               /\ Goto(t, Call([task[t] EXCEPT !.name = text(parts[1]),
                                               !.tool = text(parts[2])],
                               "get_client", "tool_returned"))
    /\ said' = <<>>
    /\ UNCHANGED <<clientVars, transportVars, registryVars, historyVars,
                   server_tools, formatted_tools, tool_use, routed,
                   messages, final_text, current_text, requests, received>>

\* Lines 380-406 after get_client and call_tool returned: the annotation, the
\* turns and the continuation request, sent without a tool list.  Lines
\* 417-420 after either raised: the error annotation, and on with the stream.
tool_returned(t) ==
    /\ Runs(t, "tool_returned")
    /\ LET e == task[t].exc IN
       /\ final_text' = output_after_call(final_text, last_call.server, last_call.tool, e)
       /\ messages' = turns_after_call(messages, current_text, e)
       /\ IF e = "none"
          THEN /\ requests' = Append(requests, [messages |-> messages', tools |-> <<>>])
               /\ last_call' = [last_call EXCEPT !.result = "ok"]
               /\ Goto(t, Reading(task[t], "recreate_await"))
          ELSE /\ requests' = requests
               /\ last_call' = [last_call EXCEPT !.result = "tool_failed"]
               /\ Goto(t, Reading(task[t], "event_await"))
    /\ UNCHANGED <<clientVars, transportVars, registryVars, ops, historyVars,
                   server_tools, formatted_tools, tool_use, routed,
                   current_text, nevents, event, said, received>>

\* The continuation's messages.create() returned its stream (lines 401-408).
next_stream_opened(t) ==
    /\ Resumes(t, "recreate_await")
    /\ Goto(t, [task[t] EXCEPT !.pc = "next_event_await"])
    /\ UNCHANGED <<clientVars, transportVars, registryVars, ops, historyVars, llmVars>>

\* The continuation's messages.create() raised, or its stream did while it was
\* read (lines 401, 408): both are inside the try, so the handler of lines
\* 417-420 takes the error for the tool call's.
next_stream_failed(t) ==
    /\ \/ /\ Resumes(t, "recreate_await")
          /\ event' = Consumed("next", "create_failed")
       \/ /\ Resumes(t, "next_event_await")
          /\ event' = Consumed("next", "failed")
    /\ final_text' = output_after_call(final_text, last_call.server, last_call.tool,
                                       "APIError")
    /\ last_call' = [last_call EXCEPT !.result = "model_failed"]
    /\ Goto(t, [task[t] EXCEPT !.pc = "event_await"])
    /\ UNCHANGED <<clientVars, transportVars, registryVars, ops, historyVars,
                   server_tools, formatted_tools, tool_use, routed,
                   messages, current_text, requests, nevents, said, received>>

\* A text delta of the continuation (lines 409-411)
next_text_delta(t) ==
    /\ Resumes(t, "next_event_await")
    /\ nevents < MaxEvents
    /\ nevents' = nevents + 1
    /\ event' = Consumed("next", "text_delta")
    /\ current_text' = Append(current_text, "more")
    /\ received' = Append(received, "more")
    /\ Goto(t, task[t])
    /\ UNCHANGED <<clientVars, transportVars, registryVars, ops, historyVars,
                   server_tools, formatted_tools, tool_use, routed,
                   messages, final_text, requests, said, last_call>>

\* Any other event of the continuation (a start, a stop, a delta that is not
\* text), a tool_use among them: line 409 lets it pass.
next_event_ignored(t) ==
    /\ Resumes(t, "next_event_await")
    /\ nevents < MaxEvents
    /\ nevents' = nevents + 1
    /\ \E type \in {"other", "tool_use"} : event' = Consumed("next", type)
    /\ Goto(t, task[t])
    /\ UNCHANGED <<clientVars, transportVars, registryVars, ops, historyVars,
                   server_tools, formatted_tools, tool_use, routed,
                   messages, final_text, current_text, requests, said, received, last_call>>

\* Mutant: the end of the continuation does not end its loop.
next_stream_ended_keeps_reading(t) ==
    /\ Resumes(t, "next_event_await")
    /\ event' = Consumed("next", "end")
    /\ final_text' = flushed(final_text, current_text)
    /\ current_text' = <<>>
    /\ Goto(t, task[t])
    /\ UNCHANGED <<clientVars, transportVars, registryVars, ops, historyVars,
                   server_tools, formatted_tools, tool_use, routed,
                   messages, requests, nevents, said, received, last_call>>

\* The continuation ended (lines 413-415): the buffer is flushed, and the loop
\* over the first stream goes on.
next_stream_ended(t) ==
    /\ Resumes(t, "next_event_await")
    /\ event' = Consumed("next", "end")
    /\ final_text' = flushed(final_text, current_text)
    /\ current_text' = <<>>
    /\ Goto(t, [task[t] EXCEPT !.pc = "event_await"])
    /\ UNCHANGED <<clientVars, transportVars, registryVars, ops, historyVars,
                   server_tools, formatted_tools, tool_use, routed,
                   messages, requests, nevents, said, received, last_call>>

\* The first stream ended: the joined segments are returned (line 422).
stream_ended(t) ==
    /\ Resumes(t, "event_await")
    /\ event' = Consumed("first", "end")
    /\ Goto(t, Ret(task[t]))
    /\ UNCHANGED <<clientVars, transportVars, registryVars, ops, historyVars,
                   server_tools, formatted_tools, tool_use, routed,
                   messages, final_text, current_text, requests, nevents, said, received, last_call>>

\* The first stream raised while it was read (line 356): nothing catches it.
stream_failed(t) ==
    /\ Resumes(t, "event_await")
    /\ event' = Consumed("first", "failed")
    /\ Goto(t, Ret([task[t] EXCEPT !.exc = "APIError"]))
    /\ UNCHANGED <<clientVars, transportVars, registryVars, ops, historyVars,
                   server_tools, formatted_tools, tool_use, routed,
                   messages, final_text, current_text, requests, nevents, said, received, last_call>>

\* main() adds a server (line 509), before it enters the chat loop (line 511).
add_server(t) ==
    \E name \in ServerNames :
       /\ requests = <<>>
       /\ nclients < MaxClients
       /\ BeginRegistry(t, "add_connection", name)

QueryStep(t) ==
    \/ process_query(t) \/ stream_opened(t) \/ create_failed(t)
    \/ event_ignored(t) \/ text_delta(t) \/ block_stop(t) \/ tool_use_event(t)
    \/ tool_returned(t)
    \/ next_stream_opened(t) \/ next_stream_failed(t)
    \/ next_text_delta(t) \/ next_event_ignored(t) \/ next_stream_ended(t)
    \/ stream_ended(t) \/ stream_failed(t)

\* What the orchestrator's calls run of the registry and of the Clients.
HostStep(t) ==
    \/ acquire_lock(t) \/ add_check(t) \/ add_store(t) \/ get_client(t)
    \/ transport_connect(t) \/ transport_connect_ok(t) \/ transport_connect_fail(t)
    \/ transport_cleanup(t) \/ aclose(t) \/ aclose_resume(t)
    \/ start(t) \/ connect_raise(t)
    \/ session_opened(t) \/ initialized(t) \/ tools_listed(t)
    \/ start_step_failed(t) \/ start_raise(t)
    \/ cleanup(t) \/ session_closed(t) \/ finish(t)
    \/ CallStep(t)

InitQuery == InitWith(0)
NextQuery ==
    \/ add_server(Orchestrator) \/ begin_query(Orchestrator)
    \/ HostStep(Orchestrator) \/ QueryStep(Orchestrator)
SpecQuery == InitQuery /\ [][NextQuery]_vars

\* The event loop runs the orchestrator whenever it can go on: every stream
\* delivers its next event or ends, and every awaited call returns or raises.
FairSpecQuery == SpecQuery /\ WF_vars(NextQuery)


\* ================================================================ claims
\* C1: single-flight reconnection.  Callers of start() or ensure_connected()
\* that overlap on one disconnected Client make one Transport.connect()
\* attempt between them: no connect is attempted on a Client that an earlier
\* caller's attempt has already connected.
C1_SingleFlight ==
    [][\A c \in Clients : connects'[c] > connects[c] => ~is_connected(c)]_vars


CallsTool(t) == task[t].op = "call_tool"
Done(t) == task[t].pc = "done"

C3_AbsentNoNetwork ==
    \A t \in Tasks :
       CallsTool(t) /\ task[t].absent =>
          /\ task[t].net = 0
          /\ Done(t) => task[t].exc = "ValueError"

\* C3, on a connected Client alone: a name that is not in the cached list
\* fails with ValueError without any network interaction; on a disconnected
\* Client call_tool reconnects first (connect, handshake, listing) and checks
\* the name against the list it then holds, and a name the server does not
\* advertise is never invoked.
C3_AbsentNoNetworkWhenConnected ==
    \A t \in Tasks :
       CallsTool(t) =>
          /\ task[t].absent /\ task[t].connected0 =>
                /\ task[t].net = 0
                /\ Done(t) => task[t].exc = "ValueError"
          /\ Done(t) /\ ~task[t].connected0 => task[t].net >= 1
          /\ task[t].inv > 0 => task[t].tool \in ServerTools
          /\ Done(t) /\ task[t].tool \notin ServerTools =>
                task[t].exc \in {"ValueError", "ConnectionError"}

\* A call for a name missing from the list of a connected Client has failed.
C3_ConnectedCase ==
    \E t \in Tasks :
       /\ CallsTool(t) /\ Done(t)
       /\ task[t].absent /\ task[t].connected0
       /\ task[t].exc = "ValueError"

Adds(t) == task[t].op = "add_connection"
Removes(t) == task[t].op = "remove_connection"
Without(conns, name) == SelectSeq(conns, LAMBDA e : e.name # name)

\* C4: add_connection with a name that is already registered fails with
\* ValueError in the step that checks it, and changes nothing: the mapping,
\* every Client and Transport, the number of Clients constructed and the
\* number of connect attempts are as before, and the call has constructed no
\* Client and made no network interaction.
C4_DuplicateAddChangesNothing ==
    [][\A t \in Tasks :
          /\ task[t].pc = "add_check"
          /\ task[t].name \in RegisteredNames
          /\ task'[t] # task[t]
          => /\ task'[t].pc = "done"
             /\ task'[t].exc = "ValueError"
             /\ task'[t].c = 0 /\ task'[t].net = 0
             /\ UNCHANGED <<connections, nclients, clientVars, transportVars, connects>>]_vars

\* C4 witness: an add_connection for a registered name has failed.
C4_Witness ==
    \E t \in Tasks :
       /\ Adds(t) /\ Done(t) /\ task[t].present
       /\ task[t].exc = "ValueError"
       /\ task[t].name \in RegisteredNames

\* C5: while add_connection(name) has its Client under construction or
\* starting, the registry holds no entry for name and does not hold that
\* Client; if start() fails the ConnectionError reaches the caller and the
\* mapping is what it was before the call; an entry appears only with a
\* successful start(), and then holds the started Client.
C5_FailedStartLeavesNoEntry ==
    \A t \in Tasks :
       Adds(t) /\ task[t].c # 0 =>
          /\ ~Done(t) =>
                /\ task[t].name \notin RegisteredNames
                /\ task[t].c \notin RegisteredClients
                /\ connections = task[t].snap
          /\ Done(t) => task[t].exc \in {"none", "ConnectionError"}
          /\ Done(t) /\ task[t].exc = "ConnectionError" =>
                /\ connections = task[t].snap
                /\ task[t].name \notin RegisteredNames
                /\ task[t].c \notin RegisteredClients
          /\ Done(t) /\ task[t].exc = "none" =>
                /\ connections =
                      Append(task[t].snap, [name |-> task[t].name, client |-> task[t].c])
                /\ is_connected(task[t].c)
                /\ available_tools[task[t].c] = ServerTools

\* C5 witness: an add_connection whose start() failed has returned its error.
C5_Witness ==
    \E t \in Tasks :
       /\ Adds(t) /\ Done(t) /\ task[t].c # 0
       /\ task[t].exc = "ConnectionError"
       /\ task[t].snap # <<>>

\* C6: remove_connection for a name that is not registered fails with
\* ValueError and leaves the mapping as it was; for a registered name it calls
\* stop() on that name's Client, the entry stays until stop() has returned,
\* and afterwards the name is gone and every other entry is as it was.
C6_Remove ==
    \A t \in Tasks :
       Removes(t) =>
          /\ Done(t) /\ ~task[t].present =>
                /\ task[t].exc = "ValueError"
                /\ task[t].c = 0
                /\ connections = task[t].snap
          /\ task[t].c # 0 /\ ~Done(t) => connections = task[t].snap
          /\ Done(t) /\ task[t].present =>
                /\ task[t].exc = "none"
                /\ [name |-> task[t].name, client |-> task[t].c] \in
                      {task[t].snap[i] : i \in DOMAIN task[t].snap}
                /\ stop_requested[task[t].c]
                /\ connections = Without(task[t].snap, task[t].name)
                /\ task[t].name \notin RegisteredNames

\* C6 witness: a removal from a registry of two entries has returned, and the
\* other entry is still there.
C6_Witness ==
    \E t \in Tasks :
       /\ Removes(t) /\ Done(t) /\ task[t].present
       /\ Len(task[t].snap) = 2 /\ Len(connections) = 1

\* The (server, tool) pair the catalog entry at index i was built from.
Origin(i) == <<server_tools[i].server, server_tools[i].tools[1]>>

\* C7: composite-key round trip.  The key the catalog emits for (server, tool)
\* splits back into that server and that tool, and no two catalog entries
\* carry the same key.
C7_KeyRoundTrip ==
    /\ routed # <<>> => routed = Origin(tool_use.index)
    /\ \A i, j \in DOMAIN formatted_tools :
          formatted_tools[i].name = formatted_tools[j].name => i = j

\* C8: while stop() is in progress on a Client (its stopping flag is set)
\* is_connected is false, no Transport.connect() is performed and no new
\* session is established on it, and the Client has no session when stop()
\* clears the flag and returns.
C8_NoReviveWhileStopping ==
    [][\A c \in Clients :
          is_stopping[c] =>
             /\ ~is_connected(c)
             /\ connects'[c] = connects[c]
             /\ session'[c] \in {session[c], 0}
             /\ ~is_stopping'[c] => session'[c] = 0]_vars

\* C8, its first half alone: no Transport.connect() is performed on a Client
\* while its stopping flag is set.
C8_NoConnectWhileStopping ==
    [][\A c \in Clients : is_stopping[c] => connects'[c] = connects[c]]_vars

\* C9: stopping is terminal: once stop() has been requested on a Client, no
\* start(), ensure_connected() or call_tool() called on it afterwards brings
\* it back to the connected state.
C9_StopIsTerminal ==
    [][\A t \in Tasks :
          /\ task[t].stopped0
          /\ task[t].op \in {"start", "ensure_connected", "call_tool"}
          /\ task'[t] # task[t]
          => (~is_connected(task[t].c) => ~is_connected(task[t].c)')]_vars

\* A registry operation between its first and its last step under the lock.
InCritical(t) ==
    /\ task[t].op \in RegistryOps
    /\ task[t].pc \notin RegistryOps \cup {"registry_lock_wait", "done"}

MutualExclusion == Cardinality({t \in Tasks : InCritical(t)}) <= 1

\* The add_connection that ran just before t's, for the same name, while t's
\* call was already in progress.
AfterConcurrentAdd(t) ==
    /\ Adds(t) /\ Done(t)
    /\ task[t].prev.op = "add_connection"
    /\ task[t].prev.name = task[t].name
    /\ task[t].prev.t \in task[t].overlap

\* C10 (as claimed): registry mutations never interleave, and of two
\* concurrent add_connection calls with the same new name the first registers
\* the entry and the second fails with the duplicate-server error.
C10_NoInterleaving ==
    /\ MutualExclusion
    /\ \A t \in Tasks :
          AfterConcurrentAdd(t) /\ ~task[t].prev.present =>
             /\ task[t].prev.exc = "none"
             /\ task[t].exc = "ValueError"
             /\ task[t].name \in RegisteredNames

\* C10 (amended): registry mutations never interleave.  Of two concurrent
\* add_connection calls with the same new name, the one that runs second
\* fails with the duplicate-server error when the first one's start()
\* succeeded, leaving that one entry; when the first one's start() failed, the
\* second finds the name absent and makes its own attempt.
C10_NoInterleavingOneAttemptAtATime ==
    /\ MutualExclusion
    /\ \A t \in Tasks :
          AfterConcurrentAdd(t) /\ ~task[t].prev.present =>
             /\ task[t].prev.exc \in {"none", "ConnectionError"}
             /\ task[t].prev.exc = "none" =>
                   /\ task[t].exc = "ValueError"
                   /\ task[t].c = 0
                   /\ task[t].name \in RegisteredNames
                   /\ connections = task[t].snap
             /\ task[t].prev.exc = "ConnectionError" =>
                   /\ ~task[t].present
                   /\ task[t].c # 0
                   /\ task[t].exc \in {"none", "ConnectionError"}
                   /\ task[t].exc = "none" <=> task[t].name \in RegisteredNames

\* C10 witness: the second of two concurrent add_connection calls with the
\* same new name has failed as a duplicate of the first.
C10_Witness ==
    \E t \in Tasks :
       /\ AfterConcurrentAdd(t) /\ ~task[t].prev.present
       /\ task[t].prev.exc = "none"
       /\ task[t].exc = "ValueError"

\* ------------------------------------------------ process_query claims
Queries(t) == task[t].op = "process_query"
Returned(t) == Queries(t) /\ Done(t) /\ task[t].exc = "none"
Count(seq, Test(_)) == Cardinality({i \in DOMAIN seq : Test(seq[i])})
IsCalled(segment) == segment.kind = "called"
IsUser(turn) == turn.role = "user"

\* C11: text that precedes a tool call in the stream, with or without a block
\* stop in between, is in the turn sequence as an assistant turn when the
\* continuation request is sent: that request's turn sequence ends with the
\* assistant turn holding the text and then the user turn holding the result.
C11_TextBeforeToolCallIsATurn ==
    last_call.result = "ok" /\ last_call.said # <<>> =>
       LET m == requests[last_call.requests + 1].messages IN
       /\ Len(m) = Len(last_call.messages) + 2
       /\ m[Len(m) - 1] = Turn("assistant", last_call.said)
       /\ m[Len(m)] = Turn("user", ResultText)

\* C12: after every tool_use event, whether its call returned or raised, a
\* continuation request is sent, and a tool_use event of a continuation stream
\* is resolved and invoked like one of the first stream.
C12_ContinuationHandledLikeFirst ==
    [][/\ last_call.result = "pending" /\ last_call'.result = "tool_failed"
          => Len(requests') = Len(requests) + 1
       /\ nevents' = nevents + 1 /\ event' = Consumed("next", "tool_use")
          => task'[Orchestrator].pc = "get_client"]_vars

\* C12, its second half alone: a tool_use event of a continuation stream is
\* resolved and invoked.
C12_NestedToolCallHandled ==
    [][nevents' = nevents + 1 /\ event' = Consumed("next", "tool_use")
          => task'[Orchestrator].pc = "get_client"]_vars

\* C13: no tool_use event makes process_query raise, whatever goes wrong in
\* resolving or invoking it: the failure leaves one error annotation naming
\* the server and the tool in the output, and the stream is read on.
C13_ToolFailureIsAnnotated ==
    /\ \A t \in Tasks :
          Queries(t) /\ Done(t) /\ task[t].exc # "none" => task[t].exc = "APIError"
    /\ last_call.result = "tool_failed" =>
          /\ Len(final_text) > Len(last_call.final_text)
          /\ final_text[Len(last_call.final_text) + 1].kind = "error"
          /\ final_text[Len(last_call.final_text) + 1].server = last_call.server
          /\ final_text[Len(last_call.final_text) + 1].tool = last_call.tool

\* C14: a tool call that fails appends no turn: from the tool_use event on
\* the turn sequence is what it was before the event, and the error
\* annotation is the segment the call added to the output.
C14_FailedCallAppendsNoTurn ==
    /\ last_call.result \in {"pending", "tool_failed", "not_split"} =>
          messages = last_call.messages
    /\ last_call.result = "tool_failed" =>
          /\ Len(final_text) > Len(last_call.final_text)
          /\ final_text[Len(last_call.final_text) + 1].kind = "error"
          /\ final_text[Len(last_call.final_text) + 1].message # "APIError"

\* C14 witness: call_tool raised while text was buffered, and no turn was
\* appended.
C14_Witness ==
    /\ last_call.result = "tool_failed"
    /\ current_text # <<>>
    /\ final_text[Len(final_text)] =
          ErrorSegment(token("weather"), token("forecast"), "ToolError")
    /\ messages = <<Turn("user", <<"query">>)>>

\* C15: a model stream that fails, when it is opened or while it is read, be
\* it the first or a continuation, ends the query: process_query raises the
\* failure and adds nothing to the output.
C15_StreamFailureAborts ==
    [][event' # event /\ event'.type \in {"create_failed", "failed"} =>
          /\ task'[Orchestrator].pc = "done"
          /\ task'[Orchestrator].exc = "APIError"
          /\ final_text' = final_text]_vars

\* C16: a tool call that returns adds one "called" annotation, naming the
\* server and the tool its key was made of, to the output, and one user turn
\* holding the result, last, to the turn sequence (after the assistant turn,
\* if one is appended); the output holds as many such annotations as the turn
\* sequence holds results, and the annotation is in the transcript returned.
C16_CallAnnotatedAndFedBack ==
    /\ [][last_call.result = "pending" /\ last_call'.result = "ok" =>
             /\ final_text' =
                   Append(final_text, CalledSegment(last_call.server, last_call.tool))
             /\ composite_key(last_call.server, last_call.tool) = last_call.key
             /\ SubSeq(messages', 1, Len(messages)) = messages
             /\ Count(messages', IsUser) = Count(messages, IsUser) + 1
             /\ messages'[Len(messages')] = Turn("user", ResultText)]_vars
    /\ [](/\ messages # <<>> => Count(final_text, IsCalled) = Count(messages, IsUser) - 1
          /\ last_call.result \in {"ok", "model_failed"} =>
                final_text[Len(last_call.final_text) + 1] =
                   CalledSegment(last_call.server, last_call.tool))

\* C16 witness: process_query has returned a transcript that holds the
\* annotation of the call to weather's forecast.
C16_Witness ==
    /\ Returned(Orchestrator)
    /\ last_call.result = "ok"
    /\ last_call.key = composite_key(token("weather"), token("forecast"))
    /\ \E i \in DOMAIN final_text :
          final_text[i] = CalledSegment(token("weather"), token("forecast"))
    /\ messages[Len(messages)] = Turn("user", ResultText)

\* ------------------------------------------------ Transport and Client claims
Starts(t) == task[t].op = "start"

C18_FailedStartHasCleanedUp ==
    [][\A t \in Tasks :
          task[t].pc = "start_raise" /\ task'[t] # task[t]
          => /\ session[task[t].c] = 0 /\ session'[task[t].c] = 0
             /\ available_tools'[task[t].c] = {}
             /\ stdio'[task[t].c] = 0 /\ write'[task[t].c] = 0
             /\ exit_stack'[task[t].c] = <<>>
             /\ ~is_connected(task[t].c)'
             /\ task'[t].exc = "ConnectionError"]_vars

\* C18 witness: a start() whose capability listing failed has raised
\* ConnectionError.
C18_Witness ==
    \E t \in Tasks :
       /\ Starts(t) /\ Done(t) /\ task[t].exc = "ConnectionError"
       /\ task[t].net = 3
       /\ session[task[t].c] = 0 /\ stdio[task[t].c] = 0

\* C19: when ConnectionManager.cleanup has completed, the mapping is empty
\* and every Client that was registered when it began is disconnected.
C19_CleanupStopsEveryClient ==
    \A t \in Tasks :
       task[t].op = "manager_cleanup" /\ Done(t) =>
          /\ connections = <<>>
          /\ \A i \in DOMAIN task[t].snap : ~is_connected(task[t].snap[i].client)

\* C19, its first half alone: when ConnectionManager.cleanup has completed,
\* stop() was called on every Client registered when it began and the mapping
\* is empty.
C19_CleanupEmptiesMapping ==
    \A t \in Tasks :
       task[t].op = "manager_cleanup" /\ Done(t) =>
          /\ connections = <<>>
          /\ \A i \in DOMAIN task[t].snap : stop_requested[task[t].snap[i].client]

\* C20: a Client that reports is_connected has finished the handshake and
\* caches the tool list the server returned.
C20_ConnectedMeansInitialized ==
    \A c \in DOMAIN session :
       is_connected(c) =>
          /\ available_tools[c] = ServerTools
          /\ \A t \in Tasks : task[t].c = c => task[t].pc # "initialize_await"

\* ------------------------------------------------ implicit claims
\* The text deltas of a sequence of output segments, in the order in which
\* "\n".join(final_text) (line 422) puts them into the transcript.
RECURSIVE joined(_)
joined(segments) ==
    IF segments = <<>> THEN <<>>
    ELSE Head(segments).text \o joined(Tail(segments))

\* C21: the transcript process_query returns holds every text delta received
\* in the query, of the first stream and of the continuations, once and in
\* arrival order, and the annotation of a tool call comes after all the text
\* that arrived before its tool_use event.
C21_NoTextLostOrReordered ==
    /\ Returned(Orchestrator) => joined(final_text) = received
    /\ last_call.result \in {"ok", "model_failed", "tool_failed"} =>
          joined(last_call.final_text) = last_call.received

\* C21, its second half alone: the annotation of a tool call comes after all
\* the text that arrived before its tool_use event.
C21_AnnotationAfterEarlierText ==
    last_call.result \in {"ok", "model_failed", "tool_failed"} =>
       joined(last_call.final_text) = last_call.received

\* C22: a query whose streams are finite and whose tool calls return or raise
\* ends (process_query returns or raises); it sends at most one request more
\* than the first stream has had tool_use events; and when a continuation
\* stream has ended, the loop over the first stream goes on, with no request
\* sent for the end.
C22_QueryTerminates ==
    /\ Queries(Orchestrator) ~> Done(Orchestrator)
    /\ [](Len(requests) <= 1 + last_call.n)
    /\ [][event' = Consumed("next", "end") /\ event # event' =>
             /\ task[Orchestrator].pc = "next_event_await"
             /\ task'[Orchestrator].pc = "event_await"
             /\ requests' = requests]_vars

\* C22 witness: after a continuation was consumed, a text delta of the first
\* stream was read and the query has returned, two requests sent.
C22_Witness ==
    /\ Returned(Orchestrator)
    /\ last_call.result = "ok" /\ last_call.n = 1
    /\ Len(requests) = 2
    /\ received = <<"more", "text">>

\* C23: a Client that holds a session holds the stream the session was built
\* on: both handles of its Transport are set to the stream of the connect
\* that preceded the session, and that stream has not been released.
C23_SessionHasLiveStream ==
    \A c \in DOMAIN session :
       session[c] # 0 =>
          /\ stdio[c] = session[c] /\ write[c] = session[c]
          /\ \E i \in DOMAIN exit_stack[c] : exit_stack[c][i] = session[c]

=============================================================================
